---------------------------- MODULE Spec2Model ----------------------------
(***************************************************************************)
(* Donut label placement of the operations dashboard.                      *)
(*                                                                         *)
(* makeDonutLabelRenderer(minGap, extraRadius, showValue) returns the      *)
(* closure DonutLabel(props), which the chart host calls once per sector.  *)
(* The closure owns two arrays, usedLeft and usedRight, holding the y of   *)
(* the labels already placed on each side.  The same function is defined   *)
(* in the station panel and in the admin panel; the admin panel also       *)
(* defines renderDonutLabel, a plain label with a percentage threshold.    *)
(*                                                                         *)
(* Numbers.  The source computes in IEEE doubles.  Here a length given by  *)
(* the host (cx, cy, outerRadius, extraRadius, minGap) is an integer       *)
(* number of pixels and a computed coordinate is an integer number of      *)
(* 1/Scale pixels; Math.cos and Math.sin of a whole number of degrees are  *)
(* read from a table rounded to 1/Scale.  Where the table entry is 0 but   *)
(* the double is a tiny negative number (cos at 270 degrees, sin at 180    *)
(* degrees), the comparison with the centre is decided as the doubles      *)
(* decide it (RoundsBelow).  NaN is a value of its own: arithmetic on it   *)
(* gives NaN and every comparison with it is false.                        *)
(***************************************************************************)
EXTENDS Integers, Sequences, FiniteSets, TLC

VARIABLES
    usedLeft,     \* [Inst -> Seq(number)]: the closure's usedLeft array
    usedRight,    \* [Inst -> Seq(number)]: the closure's usedRight array
    minGap,       \* argument of makeDonutLabelRenderer
    extraRadius,  \* argument of makeDonutLabelRenderer
    showValue,    \* argument of makeDonutLabelRenderer
    calls,        \* [Inst -> Seq(props)]: the calls an instance received, from
                  \* its last call with index 0 on (history)
    outs,         \* [Inst -> Seq(result)]: what those calls returned (history)
    panel,        \* the mounted panel: the times it rendered, the renderers its
                  \* renders made and the renderer its Pie holds as label
    admin,        \* AdminPanel: busy, selectedFiles, the busy-guarded operations
                  \* in flight and the last event handled (history)
    station,      \* StationPanel: mounted, code, the intervals set and not yet
                  \* cleared, and what the last effect run did (history)
    stepper       \* a Stepper: its props and the last value it passed to
                  \* onChange (history)

\* the state of the donut labels
donut ==
    <<usedLeft, usedRight, minGap, extraRadius, showValue, calls, outs, panel>>

\* the state of the panels' other widgets
widgets == <<admin, station, stepper>>

vars == <<donut, widgets>>

(***************************************************************************)
(* Bounds of the model.                                                    *)
(***************************************************************************)
\* calls of one pass kept in the one-renderer specification
MaxCalls == 3
\* calls kept per renderer in the two-renderer specification
MaxCallsTwo == 2
\* renders of the mounted panel
MaxRenders == 3
\* calls kept per renderer of the mounted panel
MaxCallsPanel == 2

\* coordinates are counted in 1/Scale pixels
Scale == 10 ^ 4

Inst == {1, 2}

(***************************************************************************)
(* Numbers with NaN.                                                       *)
(***************************************************************************)
NaN == 0 - 2 ^ 30

IsNaN(v) == v = NaN

Neg(a) == IF IsNaN(a) THEN NaN ELSE 0 - a

Add(a, b) == IF IsNaN(a) \/ IsNaN(b) THEN NaN ELSE a + b

Mul(a, b) == IF IsNaN(a) \/ IsNaN(b) THEN NaN ELSE a * b

GE(a, b) == ~IsNaN(a) /\ ~IsNaN(b) /\ a >= b

GT(a, b) == ~IsNaN(a) /\ ~IsNaN(b) /\ a > b

LT(a, b) == ~IsNaN(a) /\ ~IsNaN(b) /\ a < b

\* Math.abs
Abs(a) == IF IsNaN(a) THEN NaN ELSE IF a < 0 THEN 0 - a ELSE a

\* Math.round of n/d for d > 0: the nearest integer, halves rounded up
Round(n, d) == (2 * n + d) \div (2 * d)

(***************************************************************************)
(* Math.cos and Math.sin of a whole number of degrees, times Scale.        *)
(***************************************************************************)
Quarter == <<
    10000, 9998, 9994, 9986, 9976, 9962, 9945, 9925, 9903, 9877,
    9848, 9816, 9781, 9744, 9703, 9659, 9613, 9563, 9511, 9455,
    9397, 9336, 9272, 9205, 9135, 9063, 8988, 8910, 8829, 8746,
    8660, 8572, 8480, 8387, 8290, 8192, 8090, 7986, 7880, 7771,
    7660, 7547, 7431, 7314, 7193, 7071, 6947, 6820, 6691, 6561,
    6428, 6293, 6157, 6018, 5878, 5736, 5592, 5446, 5299, 5150,
    5000, 4848, 4695, 4540, 4384, 4226, 4067, 3907, 3746, 3584,
    3420, 3256, 3090, 2924, 2756, 2588, 2419, 2250, 2079, 1908,
    1736, 1564, 1392, 1219, 1045, 872, 698, 523, 349, 175,
    0 >>

CosDeg(d) ==
    LET a == d % 360
    IN  IF a <= 90 THEN Quarter[a + 1]
        ELSE IF a <= 180 THEN 0 - Quarter[(180 - a) + 1]
        ELSE IF a <= 270 THEN 0 - Quarter[(a - 180) + 1]
        ELSE Quarter[(360 - a) + 1]

\* Math.cos(deg * RAD); a non-finite argument gives NaN
MathCos(deg) == IF IsNaN(deg) THEN NaN ELSE CosDeg(deg)

\* Math.sin(deg * RAD)
MathSin(deg) == IF IsNaN(deg) THEN NaN ELSE CosDeg(deg - 90)

(***************************************************************************)
(* The doubles at the axes.  Math.cos(-270 * RAD) is -1.837e-16 and        *)
(* Math.sin(-180 * RAD) is -1.225e-16, not 0: c + r * that is below c when *)
(* r times it exceeds half the spacing of the doubles at c.  The residues  *)
(* are counted in 1e-19; 2^-53 is 1110.22e-19.                             *)
(***************************************************************************)
RECURSIVE Binade(_)
Binade(c) == IF c <= 0 THEN 0 ELSE IF c = 1 THEN 1 ELSE 2 * Binade(c \div 2)

CosResidue(midAngle) ==
    IF ~IsNaN(midAngle) /\ midAngle % 360 = 270 THEN 1837 ELSE 0

SinResidue(midAngle) ==
    IF ~IsNaN(midAngle) /\ midAngle % 360 = 180 THEN 1225 ELSE 0

RoundsBelow(c, r, residue) ==
    residue > 0 /\ r > 0 /\ r * residue * 100 > Binade(c) * 111022


(***************************************************************************)
(* DonutLabel, the closure returned by makeDonutLabelRenderer.             *)
(*                                                                         *)
(* props is the record the chart host passes: cx, cy, midAngle (degrees),  *)
(* outerRadius, percent (the host's fraction, counted in thousandths),     *)
(* name, value, fill, index.                                               *)
(***************************************************************************)
Null == [kind |-> "null"]

\* mutant: the two arrays hoisted out of makeDonutLabelRenderer, one pair for
\* every renderer
makeDonutLabelRendererShared(i) == 1

\* the i-th call of makeDonutLabelRenderer allocates arrays of its own
makeDonutLabelRenderer(i) == i

\* mutant: the reset left out
ResetStackNever(index, stack) == stack

\* mutant: the reset done by every call
ResetStackAlways(index, stack) == << >>

\* if (index === 0) { stack.length = 0 }
ResetStack(index, stack) == IF index = 0 THEN << >> ELSE stack

\* mutant: i <= 60
StepCapOff == 60 + 1

\* the loop runs for (let i = 0; i < 60; i++)
StepCap == 60

\* mutant: only the entry pushed last is tested
ClearLastOnly(stack, y) ==
    \A k \in {Len(stack)} \ {0} :
        GE(Abs(Add(stack[k], Neg(y))), minGap * Scale)

\* stack.every(yy => Math.abs(yy - y) >= minGap)
Clear(stack, y) ==
    \A k \in 1..Len(stack) :
        GE(Abs(Add(stack[k], Neg(y))), minGap * Scale)

\* for (let i = 0; i < 60; i++) { if (clear) break; y += dir * minGap }
\* The loop leaves at the first i < 60 whose y, the candidate after i steps,
\* is clear, or at i = 60: LoopExit is that i.
\* mutant: y -= dir * minGap
AfterTowardCentre(y, dir, i) == Add(y, 0 - i * dir * minGap * Scale)

After(y, dir, i) == Add(y, i * dir * minGap * Scale)

LoopExit(stack, y, dir) ==
    CHOOSE i \in 0..StepCap :
        /\ i = StepCap \/ Clear(stack, After(y, dir, i))
        /\ \A j \in 0..(i - 1) : ~Clear(stack, After(y, dir, j))

\* mutant: a search that found no clear y gives the candidate back
SearchKeepsCandidate(stack, y, dir) ==
    CHOOSE s \in { [y |-> IF i < StepCap THEN After(y, dir, i) ELSE y,
                    steps |-> i,
                    checks |-> IF i < StepCap THEN i + 1 ELSE i,
                    converged |-> i < StepCap] :
                   i \in {LoopExit(stack, y, dir)} } : TRUE

\* steps counts the executions of y += dir * minGap, checks those of the test
Search(stack, y, dir) ==
    CHOOSE s \in { [y |-> After(y, dir, i),
                    steps |-> i,
                    checks |-> IF i < StepCap THEN i + 1 ELSE i,
                    converged |-> i < StepCap] :
                   i \in {LoopExit(stack, y, dir)} } : TRUE

\* yLimit = outerRadius + extraRadius + 40, and the two clamping ifs
ClampY(y, cy, outerRadius) ==
    LET yLimit == outerRadius + extraRadius + 40
        lo == (cy - yLimit) * Scale
        hi == (cy + yLimit) * Scale
        y1 == IF LT(y, lo) THEN lo ELSE y
    IN  IF GT(y1, hi) THEN hi ELSE y1

\* mutant: the limits 5 beyond the label radius instead of 20
LeaderXTightLimit(x, isRight, props) ==
    LET leaderLen == 10
        x1 == IF isRight THEN Add(x, leaderLen * Scale)
                         ELSE Add(x, 0 - leaderLen * Scale)
        xMax == (props.cx + props.outerRadius + extraRadius + 5) * Scale
        xMin == (props.cx - props.outerRadius - extraRadius - 5) * Scale
        x2 == IF GT(x1, xMax) THEN xMax ELSE x1
    IN  IF LT(x2, xMin) THEN xMin ELSE x2

\* mutant: xMin taken from cy, as in the y clamp above it
LeaderXFromCy(x, isRight, props) ==
    LET leaderLen == 10
        x1 == IF isRight THEN Add(x, leaderLen * Scale)
                         ELSE Add(x, 0 - leaderLen * Scale)
        xMax == (props.cx + props.outerRadius + extraRadius + 20) * Scale
        xMin == (props.cy - props.outerRadius - extraRadius - 20) * Scale
        x2 == IF GT(x1, xMax) THEN xMax ELSE x1
    IN  IF LT(x2, xMin) THEN xMin ELSE x2

\* leaderLen = 10; x1 = isRight ? x + leaderLen : x - leaderLen, clamped
LeaderX(x, isRight, props) ==
    LET leaderLen == 10
        x1 == IF isRight THEN Add(x, leaderLen * Scale)
                         ELSE Add(x, 0 - leaderLen * Scale)
        xMax == (props.cx + props.outerRadius + extraRadius + 20) * Scale
        xMin == (props.cx - props.outerRadius - extraRadius - 20) * Scale
        x2 == IF GT(x1, xMax) THEN xMax ELSE x1
    IN  IF LT(x2, xMin) THEN xMin ELSE x2

\* mutant: the count written whatever showValue is
TextOutAlwaysCount(props) ==
    [name  |-> props.name,
     pct   |-> Round(props.percent, 10),
     count |-> <<props.value>>]

\* `${name} ${Math.round(pct)}% (${value})` or `${name} ${Math.round(pct)}%`
TextOut(props) ==
    [name  |-> props.name,
     pct   |-> Round(props.percent, 10),
     count |-> IF showValue THEN <<props.value>> ELSE << >>]

\* mutant: the elbow of the leader line left at the candidate y
EmitElbowAtCandidate(props, cleared, left0, right0, isRight, dir, x0, x, yc, y0, s) ==
    LET y == ClampY(s.y, props.cy, props.outerRadius)
        x1 == LeaderX(x, isRight, props)
    IN  [usedLeft  |-> IF isRight THEN left0 ELSE Append(left0, s.y),
         usedRight |-> IF isRight THEN Append(right0, s.y) ELSE right0,
         el |-> [kind |-> "g",
                 points |-> <<x0, y0, x, yc, x1, y>>,
                 x |-> IF isRight THEN Add(x1, 6 * Scale)
                                  ELSE Add(x1, 0 - 6 * Scale),
                 y |-> y,
                 textAnchor |-> IF isRight THEN "start" ELSE "end",
                 fill |-> props.fill,
                 text |-> TextOut(props)],
         did |-> [cleared |-> cleared,
                  isRight |-> isRight,
                  dir |-> dir,
                  candidateY |-> yc,
                  recorded |-> s.y,
                  steps |-> s.steps,
                  checks |-> s.checks,
                  converged |-> s.converged]]

\* mutant: y pushed on both arrays instead of on stack
EmitPushesBoth(props, cleared, left0, right0, isRight, dir, x0, x, yc, y0, s) ==
    LET y == ClampY(s.y, props.cy, props.outerRadius)
        x1 == LeaderX(x, isRight, props)
    IN  [usedLeft  |-> Append(left0, s.y),
         usedRight |-> Append(right0, s.y),
         el |-> [kind |-> "g",
                 points |-> <<x0, y0, x, y, x1, y>>,
                 x |-> IF isRight THEN Add(x1, 6 * Scale)
                                  ELSE Add(x1, 0 - 6 * Scale),
                 y |-> y,
                 textAnchor |-> IF isRight THEN "start" ELSE "end",
                 fill |-> props.fill,
                 text |-> TextOut(props)],
         did |-> [cleared |-> cleared,
                  isRight |-> isRight,
                  dir |-> dir,
                  candidateY |-> yc,
                  recorded |-> s.y,
                  steps |-> s.steps,
                  checks |-> s.checks,
                  converged |-> s.converged]]

\* the part of DonutLabel after the loop: stack.push(y), the clamps, the
\* leader line and the returned element; s is what the loop left
Emit(props, cleared, left0, right0, isRight, dir, x0, x, yc, y0, s) ==
    LET y == ClampY(s.y, props.cy, props.outerRadius)
        x1 == LeaderX(x, isRight, props)
    IN  [usedLeft  |-> IF isRight THEN left0 ELSE Append(left0, s.y),
         usedRight |-> IF isRight THEN Append(right0, s.y) ELSE right0,
         el |-> [kind |-> "g",
                 points |-> <<x0, y0, x, y, x1, y>>,
                 x |-> IF isRight THEN Add(x1, 6 * Scale)
                                  ELSE Add(x1, 0 - 6 * Scale),
                 y |-> y,
                 textAnchor |-> IF isRight THEN "start" ELSE "end",
                 fill |-> props.fill,
                 text |-> TextOut(props)],
         \* what the call did, kept for the properties
         did |-> [cleared |-> cleared,
                  isRight |-> isRight,
                  dir |-> dir,
                  candidateY |-> yc,
                  recorded |-> s.y,
                  steps |-> s.steps,
                  checks |-> s.checks,
                  converged |-> s.converged]]

\* mutant: isRight = x > cx
DonutLabelStrictSide(L, R, props) ==
    LET cx == props.cx
        cy == props.cy
        midAngle == props.midAngle
        outerRadius == props.outerRadius
        left0 == ResetStack(props.index, L)
        right0 == ResetStack(props.index, R)
        cos == MathCos(Neg(midAngle))
        sin == MathSin(Neg(midAngle))
        x0 == Add(cx * Scale, Mul(outerRadius, cos))
        y0 == Add(cy * Scale, Mul(outerRadius, sin))
        r == outerRadius + extraRadius
        x == Add(cx * Scale, Mul(r, cos))
        yc == Add(cy * Scale, Mul(r, sin))
        isRight == GT(x, cx * Scale)
        stack == IF isRight THEN right0 ELSE left0
        dir == IF GE(yc, cy * Scale)
                  /\ ~RoundsBelow(cy, r, SinResidue(midAngle))
               THEN 1 ELSE 0 - 1
        cleared == (Len(L) + Len(R)) - (Len(left0) + Len(right0))
    IN  CHOOSE res \in { Emit(props, cleared, left0, right0, isRight, dir, x0,
                               x, yc, y0, s) :
                          s \in {Search(stack, yc, dir)} } : TRUE

DonutLabel(L, R, props) ==
    LET cx == props.cx
        cy == props.cy
        midAngle == props.midAngle
        outerRadius == props.outerRadius
        left0 == ResetStack(props.index, L)
        right0 == ResetStack(props.index, R)
        cos == MathCos(Neg(midAngle))
        sin == MathSin(Neg(midAngle))
        x0 == Add(cx * Scale, Mul(outerRadius, cos))
        y0 == Add(cy * Scale, Mul(outerRadius, sin))
        r == outerRadius + extraRadius
        x == Add(cx * Scale, Mul(r, cos))
        yc == Add(cy * Scale, Mul(r, sin))
        isRight == GE(x, cx * Scale)
                   /\ ~RoundsBelow(cx, r, CosResidue(midAngle))
        stack == IF isRight THEN right0 ELSE left0
        dir == IF GE(yc, cy * Scale)
                  /\ ~RoundsBelow(cy, r, SinResidue(midAngle))
               THEN 1 ELSE 0 - 1
        \* the entries the reset removed
        cleared == (Len(L) + Len(R)) - (Len(left0) + Len(right0))
    IN  CHOOSE res \in { Emit(props, cleared, left0, right0, isRight, dir, x0,
                               x, yc, y0, s) :
                          s \in {Search(stack, yc, dir)} } : TRUE

(***************************************************************************)
(* renderDonutLabel of the admin panel: a plain label, no stacks.          *)
(***************************************************************************)
\* mutant: pct <= 3
renderDonutLabelAtMost3(props) ==
    LET cx == props.cx
        cy == props.cy
        small == props.percent <= 30
        alwaysShow == props.name = "Completed" \/ props.name = "In Progress"
        extra == IF small THEN 28 ELSE 18
        r == props.outerRadius + extra
        x == Add(cx * Scale, Mul(r, MathCos(Neg(props.midAngle))))
        y == Add(cy * Scale, Mul(r, MathSin(Neg(props.midAngle))))
    IN  IF ~alwaysShow /\ small
            THEN Null
            ELSE [kind |-> "text",
                  x |-> x,
                  y |-> y,
                  fill |-> props.fill,
                  textAnchor |-> IF GT(x, cx * Scale) THEN "start" ELSE "end",
                  text |-> [name |-> props.name,
                            pct |-> Round(props.percent, 10),
                            count |-> << >>]]

renderDonutLabel(props) ==
    LET cx == props.cx
        cy == props.cy
        \* pct < 3 with pct = percent * 100
        small == props.percent < 30
        alwaysShow == props.name = "Completed" \/ props.name = "In Progress"
        extra == IF small THEN 28 ELSE 18
        r == props.outerRadius + extra
        x == Add(cx * Scale, Mul(r, MathCos(Neg(props.midAngle))))
        y == Add(cy * Scale, Mul(r, MathSin(Neg(props.midAngle))))
    IN  IF ~alwaysShow /\ small
            THEN Null
            ELSE [kind |-> "text",
                  x |-> x,
                  y |-> y,
                  fill |-> props.fill,
                  textAnchor |-> IF GT(x, cx * Scale) THEN "start" ELSE "end",
                  text |-> [name |-> props.name,
                            pct |-> Round(props.percent, 10),
                            count |-> << >>]]

(***************************************************************************)
(* The sectors the chart host delivers in the model.                       *)
(***************************************************************************)
Sector(name, percent, midAngle, outerRadius, value) ==
    [cx |-> 150, cy |-> 150, midAngle |-> midAngle,
     outerRadius |-> outerRadius, percent |-> percent, name |-> name,
     value |-> value, fill |-> "#60a5fa"]

\* well-formed sectors: two close ones on the right, one on the left, three
\* thin ones next to each other at the bottom right
GoodSectors ==
    { Sector("A", 400, 10, 100, 40),
      Sector("B", 350, 15, 100, 35),
      Sector("Queued", 50, 170, 100, 5),
      Sector("Offered", 20, 272, 100, 2),
      Sector("Completed", 20, 275, 100, 2),
      Sector("In Progress", 26, 278, 100, 3) }

\* malformed sectors: no radius, no angle
BadSectors ==
    { Sector("A", 400, 15, 0, 40),
      Sector("B", 350, NaN, 100, 35) }

Sectors == GoodSectors \cup BadSectors

Malformed(props) == props.outerRadius <= 0 \/ IsNaN(props.midAngle)

\* 0: the first sector of a render; 1: any later one
Indexes == {0, 1}

WithIndex(sector, index) ==
    [cx |-> sector.cx, cy |-> sector.cy, midAngle |-> sector.midAngle,
     outerRadius |-> sector.outerRadius, percent |-> sector.percent,
     name |-> sector.name, value |-> sector.value, fill |-> sector.fill,
     index |-> index]

(***************************************************************************)
(* One renderer (one mounted chart): the host calls DonutLabel.            *)
(***************************************************************************)
\* no panel is mounted: the renderers are made and called directly
NoPanel == [renders |-> 0, made |-> 0, label |-> 0]

\* no event was handled yet
NoEvent == [op |-> "none"]

\* AdminPanel's state hooks as useState initialises them
AdminMounted ==
    [busy |-> FALSE, selectedFiles |-> << >>, running |-> << >>,
     last |-> NoEvent]

\* StationPanel before it mounts: code as useState initialises it, no interval
Unmounted ==
    [mounted |-> FALSE, code |-> "ST-1", intervals |-> {}, held |-> << >>,
     made |-> 0, now |-> 0, last |-> NoEvent]

\* Number.POSITIVE_INFINITY and its negation
Infinity == 2 ^ 29

NegInfinity == 0 - Infinity

\* the Stepper of "Normal stations" before any event: no max is passed
NoStepper ==
    [value |-> 6, min |-> 0, max |-> Infinity, step |-> 1, last |-> NoEvent]

\* the other widgets have handled no event
NoWidgets ==
    /\ admin = AdminMounted
    /\ station = Unmounted
    /\ stepper = NoStepper

Constructed ==
    /\ usedLeft = [i \in Inst |-> << >>]
    /\ usedRight = [i \in Inst |-> << >>]
    /\ calls = [i \in Inst |-> << >>]
    /\ outs = [i \in Inst |-> << >>]
    /\ panel = NoPanel
    /\ NoWidgets

\* the call sites pass (16, 22, true) and (16, 22); 0 is the smallest gap
Init ==
    /\ Constructed
    /\ minGap \in {0, 16}
    /\ extraRadius = 22
    /\ showValue = TRUE

\* what outs keeps of a call: the function called, the element returned and
\* what the call did
Returned(res) == [by |-> "DonutLabel", el |-> res.el, did |-> res.did]

\* DonutLabel of renderer i runs on props and returns
Returns(i, props) ==
    LET own == makeDonutLabelRenderer(i)
    IN  \E res \in {DonutLabel(usedLeft[own], usedRight[own], props)} :
        /\ usedLeft' = [usedLeft EXCEPT ![own] = res.usedLeft]
        /\ usedRight' = [usedRight EXCEPT ![own] = res.usedRight]
        /\ outs' = [outs EXCEPT ![i] =
                        IF props.index = 0 THEN <<Returned(res)>>
                                            ELSE Append(@, Returned(res))]
        /\ UNCHANGED <<minGap, extraRadius, showValue, panel, widgets>>

\* the chart host calls renderer i with props
Call(i, props) ==
    /\ Returns(i, props)
    /\ calls' = [calls EXCEPT ![i] =
                    IF props.index = 0 THEN <<props>> ELSE Append(@, props)]

Place ==
    \E sector \in Sectors, index \in Indexes :
        /\ index = 0 \/ Len(calls[1]) < MaxCalls
        /\ Call(1, WithIndex(sector, index))

Next == Place

Spec == Init /\ [][Next]_vars

(***************************************************************************)
(* Properties of one renderer.                                             *)
(***************************************************************************)
\* |a - b| >= minGap, in pixels
Apart(a, b) == GE(Abs(Add(a, Neg(b))), minGap * Scale)

\* the sectors of calls[i] are a pass as the chart host delivers it: begun by
\* index 0, every sector well-formed, mid-angles increasing
HostPass(i) ==
    /\ Len(calls[i]) >= 1
    /\ calls[i][1].index = 0
    /\ \A k \in 1..Len(calls[i]) : ~Malformed(calls[i][k])
    /\ \A j, k \in 1..Len(calls[i]) :
          j < k => calls[i][j].midAngle < calls[i][k].midAngle

\* C1: in one pass of one renderer, two labels on the same side whose searches
\* both converged are drawn at y coordinates (after the clamp) at least minGap
\* apart.
C1_EmittedGap ==
    \A i \in Inst : \A j, k \in 1..Len(outs[i]) :
        (/\ HostPass(i)
         /\ j < k
         /\ outs[i][j].did.isRight = outs[i][k].did.isRight
         /\ outs[i][j].did.converged
         /\ outs[i][k].did.converged)
        => Apart(outs[i][j].el.y, outs[i][k].el.y)

\* the y limits of the clamp, in pixels: cy -/+ (outerRadius + extraRadius + 40)
InYLimits(y, props) ==
    /\ GE(y, (props.cy - (props.outerRadius + extraRadius + 40)) * Scale)
    /\ GE((props.cy + (props.outerRadius + extraRadius + 40)) * Scale, y)

\* C2: every call with outerRadius > 0 and extraRadius >= 0 emits a label whose
\* y lies in [cy - yLimit, cy + yLimit], whatever the stacks held.
C2_EmittedYInLimits ==
    \A i \in Inst : \A k \in 1..Len(outs[i]) :
        (calls[i][k].outerRadius > 0 /\ extraRadius >= 0)
        => InYLimits(outs[i][k].el.y, calls[i][k])

\* C2 for finite mid-angles: the part of C2 that the clamp does establish.
C2_FiniteYInLimits ==
    \A i \in Inst : \A k \in 1..Len(outs[i]) :
        (calls[i][k].outerRadius > 0 /\ extraRadius >= 0
         /\ ~IsNaN(calls[i][k].midAngle))
        => InYLimits(outs[i][k].el.y, calls[i][k])

\* C5: a sector with outerRadius <= 0 or a non-finite midAngle gets no label.
C5_MalformedOmitted ==
    \A i \in Inst : \A k \in 1..Len(outs[i]) :
        Malformed(calls[i][k]) => outs[i][k].el = Null

(***************************************************************************)
(* A renderer run alone: DonutLabel applied to a sequence of calls, from   *)
(* the arrays as makeDonutLabelRenderer creates them.                      *)
(***************************************************************************)
RECURSIVE Replay(_, _)
Replay(cs, acc) ==
    IF cs = << >> THEN acc
    ELSE Replay(Tail(cs),
                CHOOSE next \in
                    { [usedLeft |-> res.usedLeft,
                       usedRight |-> res.usedRight,
                       outs |-> Append(acc.outs, Returned(res))] :
                      res \in {DonutLabel(acc.usedLeft, acc.usedRight,
                                          Head(cs))} } : TRUE)

RunAlone(cs) ==
    Replay(cs, [usedLeft |-> << >>, usedRight |-> << >>, outs |-> << >>])

\* the positions of the well-formed calls of renderer i, and the place of
\* position k among them
WellFormedAt(i) == {k \in 1..Len(calls[i]) : ~Malformed(calls[i][k])}

Rank(i, k) == Cardinality({j \in WellFormedAt(i) : j <= k})

WellFormedCalls(i) == SelectSeq(calls[i], LAMBDA props : ~Malformed(props))

\* C6: a malformed sector leaves no entry in the stacks and every other sector
\* of the pass gets the element it gets when the malformed one is not
\* delivered.  (A malformed sector with index 0 also clears the stacks; the
\* formula speaks of the others.)
C6_MalformedLeavesNoTrace ==
    \A i \in Inst :
        (\A k \in 1..Len(calls[i]) :
            Malformed(calls[i][k]) => calls[i][k].index # 0)
        => \E alone \in {RunAlone(WellFormedCalls(i))} :
              /\ usedLeft[i] = alone.usedLeft
              /\ usedRight[i] = alone.usedRight
              /\ \A k \in WellFormedAt(i) :
                    outs[i][k].el = alone.outs[Rank(i, k)].el

\* C7: the first sector after a reset (index 0) is drawn at its candidate y,
\* not displaced, which is the y a newly made renderer gives it, whatever
\* the stacks held before.
C7_NoCrossPassLeak ==
    \A i \in Inst :
        (Len(calls[i]) >= 1 /\ calls[i][1].index = 0)
        => /\ outs[i][1].el.y = DonutLabel(<< >>, << >>, calls[i][1]).el.y
           /\ outs[i][1].el.y = outs[i][1].did.candidateY
           /\ outs[i][1].did.steps = 0

\* C7 witness: a first sector whose reset removed the entries of an earlier
\* pass on the same side
C7_Witness ==
    /\ Len(calls[1]) = 1
    /\ calls[1][1].index = 0
    /\ calls[1][1].midAngle = 15
    /\ ~Malformed(calls[1][1])
    /\ outs[1][1].did.cleared >= 2

\* C3: a call makes at most 60 gap checks and at most 60 displacement steps
\* and returns a label.
C3_SearchBounded ==
    \A i \in Inst : \A k \in 1..Len(outs[i]) :
        /\ outs[i][k].did.checks <= 60
        /\ outs[i][k].did.steps <= 60
        /\ outs[i][k].el.kind = "g"

\* C3 witness: a search that ran to the cap, and one with minGap = 0
C3_Witness ==
    /\ minGap = 0
    /\ Len(outs[1]) >= 2
    /\ outs[1][2].did.steps = 60
    /\ ~outs[1][2].did.converged

\* C14: the y a call records in its side's stack is the y it emits for the
\* label (the y of the text and of the leader line), in a pass as the chart
\* host delivers it.
C14_RecordedIsEmitted ==
    \A i \in Inst : \A k \in 1..Len(outs[i]) :
        HostPass(i) => outs[i][k].did.recorded = outs[i][k].el.y

\* the y the calls of results recorded on one side, in the order of the calls
RecordedOn(results, isRight) ==
    LET side == SelectSeq(results, LAMBDA res : res.did.isRight = isRight)
    IN  [k \in 1..Len(side) |-> side[k].did.recorded]

\* calls[i] is a pass that began with a sector of index 0
PassFromZero(i) == Len(calls[i]) >= 1 /\ calls[i][1].index = 0

\* C11: in a pass begun by index 0 the stacks are cleared once, before the
\* first sector is placed, and never between two placements: after every call
\* of the pass each stack holds exactly the y recorded by the pass's calls on
\* its side, in order, no later call removed an entry, and a label whose
\* search converged is at least minGap from every earlier one of its side.
C11_ClearedOncePerPass ==
    \A i \in Inst :
        PassFromZero(i)
        => /\ usedRight[i] = RecordedOn(outs[i], TRUE)
           /\ usedLeft[i] = RecordedOn(outs[i], FALSE)
           /\ \A k \in 2..Len(outs[i]) : outs[i][k].did.cleared = 0
           /\ \A j, k \in 1..Len(outs[i]) :
                 (/\ j < k
                  /\ outs[i][j].did.isRight = outs[i][k].did.isRight
                  /\ outs[i][k].did.converged)
                 => Apart(outs[i][j].did.recorded, outs[i][k].did.recorded)

\* C11 witness: a pass whose first call removed the entries of the pass
\* before and whose third label was moved past the two before it
C11_Witness ==
    /\ PassFromZero(1)
    /\ Len(calls[1]) = 3
    /\ HostPass(1)
    /\ outs[1][1].did.cleared >= 2
    /\ outs[1][3].did.steps >= 2
    /\ outs[1][3].did.converged
    /\ Len(usedRight[1]) = 3

\* stack, with entries added at its end
Extends(longer, stack) ==
    /\ Len(longer) >= Len(stack)
    /\ \A k \in 1..Len(stack) : longer[k] = stack[k]

\* C15: a call clears both stacks if and only if its index is 0.  After a call
\* with index 0 the stacks hold its entry alone; a call with any other index,
\* the first sector of a new pass included, keeps every entry there was and
\* is checked against those of its side.
C15_ResetOnlyOnIndexZero ==
    [][ LET props == calls'[1][Len(calls'[1])]
            did == outs'[1][Len(outs'[1])].did
            stale == IF did.isRight THEN usedRight[1] ELSE usedLeft[1]
        IN  /\ props.index = 0
               => Len(usedLeft'[1]) + Len(usedRight'[1]) = 1
            /\ props.index # 0
               => /\ Extends(usedLeft'[1], usedLeft[1])
                  /\ Extends(usedRight'[1], usedRight[1])
                  /\ Len(usedLeft'[1]) + Len(usedRight'[1])
                        = Len(usedLeft[1]) + Len(usedRight[1]) + 1
                  /\ did.converged
                     => \A k \in 1..Len(stale) : Apart(stale[k], did.recorded)
      ]_vars

\* C15 witness: a render is over and its first sector is delivered again with
\* an index other than 0: its own entry of the render before displaces it
C15_Witness ==
    /\ Len(calls[1]) = 2
    /\ calls[1][1].index = 0
    /\ calls[1][2].index # 0
    /\ ~Malformed(calls[1][1])
    /\ calls[1][2].midAngle = calls[1][1].midAngle
    /\ minGap = 16
    /\ outs[1][2].did.steps > 0
    /\ outs[1][2].el.y # outs[1][1].el.y

\* C17: in every call dir is +1 if the candidate y is >= cy and -1 otherwise;
\* the recorded y is candidateY + k * dir * minGap with k the number of steps,
\* 0 <= k <= 60; it is on the candidate's side of the centre line and no
\* nearer to it; and k = 0 when the entries of the label's side (after the
\* reset of index 0) are all at least minGap from candidateY.
C17_FixedDirection ==
    [][ LET props == calls'[1][Len(calls'[1])]
            did == outs'[1][Len(outs'[1])].did
            cy == props.cy * Scale
            before == IF props.index = 0 THEN << >>
                      ELSE IF did.isRight THEN usedRight[1] ELSE usedLeft[1]
        IN  /\ did.dir = IF GE(did.candidateY, cy) THEN 1 ELSE 0 - 1
            /\ did.steps \in 0..60
            /\ did.recorded
                  = Add(did.candidateY, did.steps * did.dir * minGap * Scale)
            /\ ~IsNaN(did.candidateY)
               => /\ did.dir = 1
                     => did.recorded >= did.candidateY /\ did.candidateY >= cy
                  /\ did.dir = 0 - 1
                     => did.recorded <= did.candidateY /\ did.candidateY < cy
            /\ (\A k \in 1..Len(before) : Apart(before[k], did.candidateY))
               => did.steps = 0
      ]_vars

\* C17 witness: two labels above the centre line, the first at its candidate,
\* the second moved up by whole steps of minGap
C17_Witness ==
    /\ minGap = 16
    /\ Len(outs[1]) = 2
    /\ HostPass(1)
    /\ outs[1][1].did.steps = 0
    /\ outs[1][2].did.dir = 0 - 1
    /\ outs[1][2].did.steps >= 1
    /\ outs[1][2].did.recorded
          = outs[1][2].did.candidateY - outs[1][2].did.steps * 16 * Scale
    /\ outs[1][2].did.recorded < 150 * Scale

\* the labels among results
Emitted(results) == {k \in 1..Len(results) : results[k].el # Null}

C20_LeaderLineShape ==
    \A k \in 1..Len(outs[1]) :
        LET props == calls[1][k]
            el == outs[1][k].el
            cos == MathCos(Neg(props.midAngle))
            sin == MathSin(Neg(props.midAngle))
        IN  \E alone \in {DonutLabel(<< >>, << >>, props).el} :
                /\ Len(el.points) = 6
                /\ el.points[1]
                      = Add(props.cx * Scale, Mul(props.outerRadius, cos))
                /\ el.points[2]
                      = Add(props.cy * Scale, Mul(props.outerRadius, sin))
                /\ el.points[3]
                      = Add(props.cx * Scale,
                            Mul(props.outerRadius + extraRadius, cos))
                /\ el.points[4] = el.y
                /\ el.points[6] = el.y
                /\ \A n \in {1, 2, 3, 5} : el.points[n] = alone.points[n]
                /\ el.x = alone.x
                /\ el.textAnchor = alone.textAnchor
                /\ outs[1][k].did.steps = 0 => el.y = alone.y

\* C20 witness: a label moved by the search, its elbow and end at the new y
C20_Witness ==
    /\ HostPass(1)
    /\ Len(outs[1]) = 2
    /\ outs[1][2].did.steps > 0
    /\ outs[1][2].el.y # outs[1][2].did.candidateY
    /\ outs[1][2].el.points[4] = outs[1][2].el.y
    /\ outs[1][2].el.points[6] = outs[1][2].el.y
    /\ outs[1][2].el.points[3] # outs[1][2].el.points[5]

\* any two entries of stack are at least minGap apart
Spaced(stack) ==
    \A j, k \in 1..Len(stack) : j < k => Apart(stack[j], stack[k])

\* C21: while no search since the stacks were last empty has used its 60
\* steps, any two entries of one stack (the y recorded before the clamp) are at
\* least minGap apart.
C21_StackEntriesSpaced ==
    \A i \in Inst :
        (\A k \in 1..Len(outs[i]) : outs[i][k].did.converged)
        => Spaced(usedLeft[i]) /\ Spaced(usedRight[i])

\* C21 witness: three entries on the right, the third put there after four
\* steps, beyond the y limit of the clamp
C21_Witness ==
    /\ minGap = 16
    /\ Len(usedRight[1]) = 3
    /\ \A k \in 1..3 : outs[1][k].did.converged
    /\ outs[1][3].did.steps = 4
    /\ usedRight[1][3] > outs[1][3].el.y

\* the calls before the k-th whose label is on the side of the k-th: the
\* entries its search was run against
SameSideBefore(results, k) ==
    {j \in 1..(k - 1) : results[j].did.isRight = results[k].did.isRight}

\* the k-th search stopped at a y at least minGap from every entry
StoppedClear(results, k) ==
    /\ results[k].did.converged
    /\ \A j \in SameSideBefore(results, k) :
          Apart(results[j].did.recorded, results[k].did.recorded)

\* C22: with minGap > 0, a search run against at most 29 entries converges: it
\* stops within the cap at a y at least minGap from every entry.
C22_FewEntriesConverge ==
    \A i \in Inst : \A k \in 1..Len(outs[i]) :
        (minGap > 0 /\ Cardinality(SameSideBefore(outs[i], k)) <= 29)
        => StoppedClear(outs[i], k)

\* C22 for numbers: the same when the candidate y and the entries are finite.
C22_FiniteEntriesConverge ==
    \A i \in Inst : \A k \in 1..Len(outs[i]) :
        (/\ minGap > 0
         /\ Cardinality(SameSideBefore(outs[i], k)) <= 29
         /\ ~IsNaN(outs[i][k].did.candidateY)
         /\ \A j \in SameSideBefore(outs[i], k) :
               ~IsNaN(outs[i][j].did.recorded))
        => StoppedClear(outs[i], k)

(***************************************************************************)
(* Two renderers (two charts side by side), called in any interleaving.    *)
(***************************************************************************)
TwoSectors ==
    { Sector("A", 400, 10, 100, 40),
      Sector("B", 350, 15, 100, 35),
      Sector("Queued", 50, 170, 100, 5) }

PlaceEither ==
    \E i \in Inst, sector \in TwoSectors, index \in Indexes :
        /\ index = 0 \/ Len(calls[i]) < MaxCallsTwo
        /\ Call(i, WithIndex(sector, index))

NextTwo == PlaceEither

SpecTwo == Init /\ [][NextTwo]_vars

\* the elements renderer i returned
Els(results) == [k \in 1..Len(results) |-> results[k].el]

C10_Isolated ==
    \A i \in Inst :
        \E alone \in {RunAlone(calls[i])} :
            /\ Els(outs[i]) = Els(alone.outs)
            /\ usedLeft[i] = alone.usedLeft
            /\ usedRight[i] = alone.usedRight

\* C10 witness: both renderers in the middle of different passes, each with
\* a displaced label
C10_Witness ==
    /\ Len(calls[1]) = 2
    /\ Len(calls[2]) = 2
    /\ calls[1] # calls[2]
    /\ outs[1][2].did.steps > 0
    /\ outs[2][2].did.steps > 0
    /\ Len(usedRight[1]) = 2
    /\ Len(usedLeft[2]) = 2

(***************************************************************************)
(* The two copies.  makeDonutLabelRenderer is defined once in the station  *)
(* panel's file and once in the admin panel's file.  DonutLabel above is   *)
(* the station panel's; DonutLabelAdmin is the admin panel's, statement by *)
(* statement.  Renderer 1 is made by the first copy, renderer 2 by the     *)
(* second, with the same arguments, and the host gives both the same calls.*)
(***************************************************************************)
\* mutant: the admin copy after an edit that lost the reset of index 0
DonutLabelAdminDrifted(L, R, props) ==
    DonutLabel(L, R, [props EXCEPT !.index = 1])

DonutLabelAdmin(L, R, props) ==
    LET cx == props.cx * Scale
        cy == props.cy * Scale
        \* if (index === 0) { usedLeft.length = 0; usedRight.length = 0 }
        left == IF props.index = 0 THEN << >> ELSE L
        right == IF props.index = 0 THEN << >> ELSE R
        cos == MathCos(Neg(props.midAngle))
        sin == MathSin(Neg(props.midAngle))
        x0 == Add(cx, Mul(props.outerRadius, cos))
        y0 == Add(cy, Mul(props.outerRadius, sin))
        r == props.outerRadius + extraRadius
        x == Add(cx, Mul(r, cos))
        yStart == Add(cy, Mul(r, sin))
        isRight == GE(x, cx) /\ ~RoundsBelow(props.cx, r, CosResidue(props.midAngle))
        stack == IF isRight THEN right ELSE left
        dir == IF GE(yStart, cy)
                  /\ ~RoundsBelow(props.cy, r, SinResidue(props.midAngle))
               THEN 1 ELSE 0 - 1
        \* y after n executions of y += dir * minGap
        yAt(n) == Add(yStart, n * dir * minGap * Scale)
        every(n) == \A k \in DOMAIN stack :
                        GE(Abs(Add(stack[k], Neg(yAt(n)))), minGap * Scale)
        \* the i at which for (let i = 0; i < 60; i++) is left
        breaks == {n \in 0..59 : every(n)}
        last == IF breaks = { } THEN 60
                ELSE CHOOSE n \in breaks : \A m \in breaks : n <= m
        pushed == yAt(last)
        yLimit == (props.outerRadius + extraRadius + 40) * Scale
        yLow == IF LT(pushed, cy - yLimit) THEN cy - yLimit ELSE pushed
        y == IF GT(yLow, cy + yLimit) THEN cy + yLimit ELSE yLow
        xMax == cx + (props.outerRadius + extraRadius + 20) * Scale
        xMin == cx - (props.outerRadius + extraRadius + 20) * Scale
        xLeader == IF isRight THEN Add(x, 10 * Scale)
                              ELSE Add(x, 0 - 10 * Scale)
        xCapped == IF GT(xLeader, xMax) THEN xMax ELSE xLeader
        x1 == IF LT(xCapped, xMin) THEN xMin ELSE xCapped
    IN  [usedLeft  |-> IF isRight THEN left ELSE left \o <<pushed>>,
         usedRight |-> IF isRight THEN right \o <<pushed>> ELSE right,
         el |-> [kind |-> "g",
                 points |-> <<x0, y0, x, y, x1, y>>,
                 x |-> Add(x1, (IF isRight THEN 6 ELSE 0 - 6) * Scale),
                 y |-> y,
                 textAnchor |-> IF isRight THEN "start" ELSE "end",
                 fill |-> props.fill,
                 text |-> IF showValue
                              THEN [name |-> props.name,
                                    pct |-> Round(props.percent, 10),
                                    count |-> <<props.value>>]
                              ELSE [name |-> props.name,
                                    pct |-> Round(props.percent, 10),
                                    count |-> << >>]],
         did |-> [cleared |-> (Len(L) + Len(R)) - (Len(left) + Len(right)),
                  isRight |-> isRight,
                  dir |-> dir,
                  candidateY |-> yStart,
                  recorded |-> pushed,
                  steps |-> last,
                  checks |-> IF last < 60 THEN last + 1 ELSE last,
                  converged |-> last < 60]]

\* both call sites: (16, 22, true) and (16, 22); other arguments, the same for
\* both copies
InitCopies ==
    /\ Constructed
    /\ minGap \in {0, 16}
    /\ extraRadius = 22
    /\ showValue \in BOOLEAN

\* the sectors given to both: one on the left, three thin ones at the bottom
\* right, one without an angle
CopySectors ==
    { Sector("Queued", 50, 170, 100, 5),
      Sector("Offered", 20, 272, 100, 2),
      Sector("Completed", 20, 275, 100, 2),
      Sector("In Progress", 26, 278, 100, 3),
      Sector("B", 350, NaN, 100, 35) }

\* the same call is given to the renderer of each copy
PlaceBoth ==
    \E sector \in CopySectors, index \in Indexes :
        /\ index = 0 \/ Len(calls[1]) < MaxCalls
        /\ \E ofStation \in {DonutLabel(usedLeft[1], usedRight[1],
                                       WithIndex(sector, index))},
              ofAdmin \in {DonutLabelAdmin(usedLeft[2], usedRight[2],
                                         WithIndex(sector, index))} :
              /\ usedLeft' = <<ofStation.usedLeft, ofAdmin.usedLeft>>
              /\ usedRight' = <<ofStation.usedRight, ofAdmin.usedRight>>
              /\ outs' = [i \in Inst |->
                            IF index = 0
                                THEN <<Returned(<<ofStation, ofAdmin>>[i])>>
                                ELSE Append(outs[i],
                                            Returned(<<ofStation, ofAdmin>>[i]))]
        /\ calls' = [i \in Inst |->
                        IF index = 0 THEN <<WithIndex(sector, index)>>
                        ELSE Append(calls[i], WithIndex(sector, index))]
        /\ UNCHANGED <<minGap, extraRadius, showValue, panel, widgets>>

NextCopies == PlaceBoth

SpecCopies == InitCopies /\ [][NextCopies]_vars

\* C23: given the same arguments and the same calls, the renderer of the
\* station panel's copy and that of the admin panel's copy have returned the
\* same elements and hold the same stacks after every call.
C23_CopiesAgree ==
    calls[1] = calls[2]
    => /\ Els(outs[1]) = Els(outs[2])
       /\ usedLeft[1] = usedLeft[2]
       /\ usedRight[1] = usedRight[2]

\* C23 witness: both copies after a pass of three sectors, the third label
\* moved by the search and drawn at the clamp limit, after an earlier pass
C23_Witness ==
    /\ ~showValue
    /\ calls[1] = calls[2]
    /\ Len(calls[2]) = 3
    /\ outs[2][1].did.cleared >= 1
    /\ outs[2][3].did.steps = 4
    /\ outs[2][3].el.y # outs[2][3].did.recorded
    /\ outs[2][3].el.text.count = << >>

(***************************************************************************)
(* The leader line over the whole circle: one sector given to a renderer,  *)
(* for every mid-angle.                                                    *)
(***************************************************************************)
MaxAngle == 359

SweepProps ==
    { [cx |-> cx, cy |-> 150, midAngle |-> midAngle,
       outerRadius |-> outerRadius, percent |-> 250, name |-> "A",
       value |-> 25, fill |-> "#60a5fa", index |-> 0] :
      cx \in {0, 150}, outerRadius \in {1, 100}, midAngle \in 0..MaxAngle }

\* a renderer is made and the host is about to deliver one sector
InitSweep ==
    /\ usedLeft = [i \in Inst |-> << >>]
    /\ usedRight = [i \in Inst |-> << >>]
    /\ outs = [i \in Inst |-> << >>]
    /\ panel = NoPanel
    /\ NoWidgets
    /\ \E props \in SweepProps : calls = [i \in Inst |-> <<props>>]
    /\ minGap = 16
    /\ extraRadius \in {0, 22}
    /\ showValue = TRUE

Sweep ==
    /\ outs[1] = << >>
    /\ Returns(1, calls[1][1])
    /\ UNCHANGED calls

NextSweep == Sweep

SpecSweep == InitSweep /\ [][NextSweep]_vars

\* p2.x, the end of the leader line
P2X(result) == result.el.points[5]

\* C9: for every mid-angle, cx, outerRadius > 0 and extraRadius >= 0 the end of
\* the leader line lies in cx -/+ (outerRadius + extraRadius + 20); with
\* cx = 150, outerRadius = 100, extraRadius = 22 it lies in [8, 292].
C9_LeaderEndInBox ==
    \A k \in 1..Len(outs[1]) :
        LET props == calls[1][k]
            reach == props.outerRadius + extraRadius + 20
        IN  /\ (props.outerRadius > 0 /\ extraRadius >= 0)
               => /\ GE(P2X(outs[1][k]), (props.cx - reach) * Scale)
                  /\ GE((props.cx + reach) * Scale, P2X(outs[1][k]))
            /\ (props.cx = 150 /\ props.outerRadius = 100 /\ extraRadius = 22)
               => /\ GE(P2X(outs[1][k]), 8 * Scale)
                  /\ GE(292 * Scale, P2X(outs[1][k]))

\* C9 witness: the farthest leader end, at mid-angle 0 of the spec's chart
C9_Witness ==
    /\ Len(outs[1]) = 1
    /\ calls[1][1].cx = 150
    /\ calls[1][1].outerRadius = 100
    /\ calls[1][1].midAngle = 0
    /\ extraRadius = 22
    /\ P2X(outs[1][1]) = 282 * Scale

\* p1.x, the elbow of the leader line: the candidate x
P1X(result) == result.el.points[3]

\* C29: for outerRadius + extraRadius >= 0 and every mid-angle the candidate x
\* is within outerRadius + extraRadius of cx, the end of the leader line is the
\* elbow's x plus 10 on the right side and minus 10 on the left side, not a
\* limit of the clamp, and it is within outerRadius + extraRadius + 10 of cx.
C29_ClampLeavesLeaderEnd ==
    \A k \in 1..Len(outs[1]) :
        LET props == calls[1][k]
            reach == props.outerRadius + extraRadius
            p1x == P1X(outs[1][k])
            p2x == P2X(outs[1][k])
        IN  reach >= 0
            => /\ p1x - props.cx * Scale <= reach * Scale
               /\ props.cx * Scale - p1x <= reach * Scale
               /\ outs[1][k].did.isRight => p2x = p1x + 10 * Scale
               /\ ~outs[1][k].did.isRight => p2x = p1x - 10 * Scale
               /\ p2x <= (props.cx + reach + 10) * Scale
               /\ p2x >= (props.cx - reach - 10) * Scale

\* C29 happens: at mid-angle 180 of the spec's chart the candidate x is the
\* farthest left it can be, 28, and the leader line ends at 18, 10 short of
\* the clamp's limit 8
C29_Witness ==
    /\ Len(outs[1]) = 1
    /\ calls[1][1].cx = 150
    /\ calls[1][1].outerRadius = 100
    /\ calls[1][1].midAngle = 180
    /\ extraRadius = 22
    /\ ~outs[1][1].did.isRight
    /\ P1X(outs[1][1]) = 28 * Scale
    /\ P2X(outs[1][1]) = 18 * Scale

(***************************************************************************)
(* The percentage threshold: one sector given to DonutLabel and to         *)
(* renderDonutLabel, for every small percentage and every status name.     *)
(***************************************************************************)
\* percentages up to MaxPercent thousandths (6 percent)
MaxPercent == 60

FilterProps ==
    { [cx |-> 150, cy |-> 150, midAngle |-> 10, outerRadius |-> 100,
       percent |-> percent, name |-> name, value |-> percent \div 10,
       fill |-> "#60a5fa", index |-> 0] :
      percent \in 0..MaxPercent,
      name \in {"Queued", "Offered", "In Progress", "Completed"} }

\* the host is about to deliver one sector
InitFilter ==
    /\ usedLeft = [i \in Inst |-> << >>]
    /\ usedRight = [i \in Inst |-> << >>]
    /\ outs = [i \in Inst |-> << >>]
    /\ panel = NoPanel
    /\ NoWidgets
    /\ \E props \in FilterProps : calls = [i \in Inst |-> <<props>>]
    /\ minGap = 16
    /\ extraRadius = 22
    /\ showValue \in BOOLEAN

\* the sector is labelled by a renderer of makeDonutLabelRenderer
Labelled ==
    /\ outs[1] = << >>
    /\ Returns(1, calls[1][1])
    /\ UNCHANGED calls

\* the sector is labelled by renderDonutLabel
PlainLabelled ==
    /\ outs[1] = << >>
    /\ outs' = [outs EXCEPT ![1] =
                   << [by |-> "renderDonutLabel",
                       el |-> renderDonutLabel(calls[1][1])] >>]
    /\ UNCHANGED <<usedLeft, usedRight, minGap, extraRadius, showValue, calls,
                   panel, widgets>>

NextFilter == Labelled \/ PlainLabelled

SpecFilter == InitFilter /\ [][NextFilter]_vars

\* percent < 3 and the name is not one that is always shown
BelowThreshold(props, alwaysShowNames) ==
    props.percent < 30 /\ props.name \notin alwaysShowNames

MaxCrowd == 64

\* the sector of index k
CrowdSector(k) == Sector("Queued", 3, 181 + k, 100, 1)

InitCrowd ==
    /\ Constructed
    /\ minGap \in {16, 20}
    /\ extraRadius \in {0, 22}
    /\ showValue = TRUE

\* the chart host delivers the next sector of the pass, or the first one of
\* the next render
CrowdPlace ==
    \E index \in {IF Len(calls[1]) >= MaxCrowd THEN 0 ELSE Len(calls[1])} :
        Call(1, WithIndex(CrowdSector(index), index))

NextCrowd == CrowdPlace

SpecCrowd == InitCrowd /\ [][NextCrowd]_vars

\* the two clamping ifs, as a range
WithinYLimits(y, props) ==
    LET yLimit == props.outerRadius + extraRadius + 40
    IN  IF y < (props.cy - yLimit) * Scale THEN (props.cy - yLimit) * Scale
        ELSE IF y > (props.cy + yLimit) * Scale
                 THEN (props.cy + yLimit) * Scale
                 ELSE y

\* C16: a search that used its 60 steps is no error: the call returns a label
\* whose recorded y is candidateY + 60 * dir * minGap and whose drawn y is
\* that value clamped, and the entry is in the stack of its side.
C16_CapExhaustedStillEmits ==
    /\ usedLeft[1] = RecordedOn(outs[1], FALSE)
    /\ usedRight[1] = RecordedOn(outs[1], TRUE)
    /\ \A k \in 1..Len(outs[1]) :
          ~outs[1][k].did.converged
          => LET did == outs[1][k].did
                 el == outs[1][k].el
             IN  /\ el.kind = "g"
                 /\ did.steps = 60
                 /\ did.recorded
                       = did.candidateY + 60 * did.dir * minGap * Scale
                 /\ el.y = WithinYLimits(did.recorded, calls[1][k])
                 /\ el.points[4] = el.y
                 /\ el.points[6] = el.y

\* C16 witness: the 62nd label of the pass used its 60 steps, is recorded
\* less than minGap from an earlier one and is drawn at the lower limit
C16_Witness ==
    /\ Len(outs[1]) >= 62
    /\ ~outs[1][62].did.converged
    /\ \E j \in 1..61 :
          ~Apart(outs[1][j].did.recorded, outs[1][62].did.recorded)
    /\ usedLeft[1][62] = outs[1][62].did.recorded
    /\ outs[1][62].el.y = (150 + 100 + extraRadius + 40) * Scale

(***************************************************************************)
(* A mounted panel.  StationPanel is a function component: every render    *)
(* runs its body, and the Pie's label prop is the expression               *)
(* makeDonutLabelRenderer(16, 22, true).  The panel renders when it mounts *)
(* and whenever a polling timer's response sets its state.  The chart host *)
(* calls the renderer the Pie holds.                                       *)
(***************************************************************************)
\* mutant: the renderer kept from the first render on, as with
\* useMemo(() => makeDonutLabelRenderer(16, 22, true), [])
LabelPropMemo(made) == IF made = 0 THEN 1 ELSE made

\* label={makeDonutLabelRenderer(16, 22, true)}: evaluating the prop makes a
\* renderer; the result is the number of renderers made so far
LabelProp(made) == made + 1

\* where the arrays of the n-th renderer are kept: a renderer the Pie no longer
\* holds is unreachable, so the place of the one before the last is used again
Slot(n) == ((n - 1) % Cardinality(Inst)) + 1

\* the call sites pass (16, 22, true)
InitPanel ==
    /\ Constructed
    /\ minGap = 16
    /\ extraRadius = 22
    /\ showValue = TRUE

\* one run of the component's body
RenderPanel ==
    \E newest \in {LabelProp(panel.made)} :
        /\ panel' = [renders |-> panel.renders + 1, made |-> newest,
                     label |-> Slot(newest)]
        /\ IF newest > panel.made
              THEN /\ usedLeft' = [usedLeft EXCEPT ![Slot(newest)] = << >>]
                   /\ usedRight' = [usedRight EXCEPT ![Slot(newest)] = << >>]
                   /\ calls' = [calls EXCEPT ![Slot(newest)] = << >>]
                   /\ outs' = [outs EXCEPT ![Slot(newest)] = << >>]
              ELSE UNCHANGED <<usedLeft, usedRight, calls, outs>>
        /\ UNCHANGED <<minGap, extraRadius, showValue, widgets>>

\* the panel mounts: its first render
Mount ==
    /\ panel.renders = 0
    /\ RenderPanel

\* a polling timer fired and its response set the panel's state
PollRefresh ==
    /\ panel.renders >= 1
    /\ panel.renders < MaxRenders
    /\ RenderPanel

\* the chart host calls the Pie's label for a sector
HostDraws ==
    /\ panel.label # 0
    /\ \E sector \in TwoSectors, index \in Indexes :
          /\ index = 0 \/ Len(calls[panel.label]) < MaxCallsPanel
          /\ Call(panel.label, WithIndex(sector, index))

NextPanel == Mount \/ PollRefresh \/ HostDraws

SpecPanel == InitPanel /\ [][NextPanel]_vars

C13_SideAndAnchor ==
    \A k \in 1..Len(outs[1]) :
        LET props == calls[1][k]
            el == outs[1][k].el
            x == el.points[3]
            c == props.cx * Scale
            p2x == P2X(outs[1][k])
            right == outs[1][k].did.isRight
        IN  /\ GT(x, c) => right
            /\ LT(x, c) => ~right
            /\ x = c => (right <=> ~RoundsBelow(props.cx,
                                                props.outerRadius + extraRadius,
                                                CosResidue(props.midAngle)))
            /\ right => /\ el.textAnchor = "start"
                        /\ el.x = p2x + 6 * Scale
                        /\ p2x >= c
                        /\ el.x - c > p2x - c
            /\ ~right => /\ el.textAnchor = "end"
                         /\ el.x = p2x - 6 * Scale
                         /\ p2x <= c
                         /\ c - el.x > c - p2x

\* C13 witness: at 90 degrees the candidate x is cx and the label is on the
\* right, with its text 6 beyond the leader end
C13_Witness ==
    /\ Len(outs[1]) = 1
    /\ calls[1][1].midAngle = 90
    /\ calls[1][1].cx = 150
    /\ outs[1][1].el.points[3] = 150 * Scale
    /\ outs[1][1].el.textAnchor = "start"
    /\ outs[1][1].el.x = 166 * Scale

\* C12: the text of a DonutLabel label is the sector's name, the percentage
\* rounded to the nearest integer (percent is counted in thousandths, so the
\* percentage is percent / 10) and, exactly when showValue is true, the count.
C12_TextFormat ==
    \A k \in 1..Len(outs[1]) :
        outs[1][k].by = "DonutLabel"
        => LET text == outs[1][k].el.text
               props == calls[1][k]
           IN  /\ text.name = props.name
               /\ 2 * Abs(10 * text.pct - props.percent) <= 10
               /\ showValue => text.count = <<props.value>>
               /\ ~showValue => text.count = << >>

\* C12 witness: showValue false, 2.5 percent written as 3 and no count
C12_Witness ==
    /\ ~showValue
    /\ Len(outs[1]) = 1
    /\ outs[1][1].by = "DonutLabel"
    /\ calls[1][1].percent = 25
    /\ outs[1][1].el.text = [name |-> calls[1][1].name, pct |-> 3,
                              count |-> << >>]


(***************************************************************************)
(* AdminPanel: the busy flag, the selected files and the operations that   *)
(* set busy.  An operation in flight is an entry of admin.running: its op, *)
(* the awaits still ahead of it (todo, the pending one first), the array   *)
(* uploadSelected iterates (the selectedFiles of the render whose button   *)
(* was clicked) and, for each request of its own that settled, the file it *)
(* carried and how it settled.  admin.last is the event handled last: a    *)
(* file selection, a removal or an operation that finished.                *)
(***************************************************************************)
\* files one dialog can return
MaxChosen == 3
\* operations kept in flight
MaxInFlight == 2

Ops ==
    {"seed", "uploadSelected", "allocate", "resetAll", "addStation",
     "saveEdit", "removeStation"}

FileNames == {"a.csv", "b.csv"}

\* a request resolves with ok, resolves without ok, or rejects
Outcomes == {"ok", "notok", "throw"}

Chosen == UNION {[1..m -> FileNames] : m \in 0..MaxChosen}

Event(op, given, files, before, outcomes) ==
    [op |-> op, given |-> given, files |-> files, before |-> before,
     outcomes |-> outcomes]

\* mutant: only the Seed button carries disabled={busy}
DisabledSeedOnly(op, busy) == op = "seed" /\ busy

\* the disabled attribute of the button that starts op
Disabled(op, busy) == busy

\* mutant: the five files chosen last are kept
limitedNewest(selectedFiles, files) ==
    LET all == selectedFiles \o files
    IN  SubSeq(all, IF Len(all) > 5 THEN Len(all) - 4 ELSE 1, Len(all))

\* [...selectedFiles, ...files].slice(0, 5)
limited(selectedFiles, files) ==
    LET all == selectedFiles \o files
    IN  SubSeq(all, 1, IF Len(all) > 5 THEN 5 ELSE Len(all))

\* the file input changed; without a file list the handler returns
handleFileSelect ==
    /\ ~admin.busy
    /\ \E files \in Chosen, given \in BOOLEAN :
          /\ given \/ files = << >>
          /\ admin' =
                [admin EXCEPT
                    !.selectedFiles =
                        IF given THEN limited(@, files) ELSE @,
                    !.last = Event("handleFileSelect", given, files,
                                   admin.selectedFiles, << >>)]
    /\ UNCHANGED <<donut, station, stepper>>

\* the remove button of a listed file
removeFile ==
    /\ \E k \in 1..Len(admin.selectedFiles) :
          \E fileName \in {admin.selectedFiles[k]} :
              admin' =
                  [admin EXCEPT
                      !.selectedFiles = SelectSeq(@, LAMBDA f : f # fileName),
                      !.last = Event("removeFile", TRUE, <<fileName>>,
                                     admin.selectedFiles, << >>)]
    /\ UNCHANGED <<donut, station, stepper>>

\* what an operation awaits first
FirstAwait(op) == IF op = "uploadSelected" THEN "upload" ELSE "post"

\* a button of a busy-guarded operation is clicked.  ready is what the
\* operation tests before setBusy(true): the answer to confirm (resetAll,
\* removeStation), a non-blank newCode (addStation), an editCode (saveEdit),
\* a non-empty selectedFiles (uploadSelected)
Click ==
    /\ Len(admin.running) < MaxInFlight
    /\ \E op \in Ops, ready \in BOOLEAN :
          /\ ~Disabled(op, admin.busy)
          /\ op \in {"seed", "allocate"} => ready
          /\ op = "uploadSelected" => ready = (Len(admin.selectedFiles) > 0)
          /\ admin' =
                IF ready
                    THEN [admin EXCEPT
                             !.busy = TRUE,
                             !.running =
                                 Append(@, [op |-> op,
                                            todo |-> <<FirstAwait(op)>>,
                                            files |-> admin.selectedFiles,
                                            outcomes |-> << >>]),
                             !.last = NoEvent]
                    ELSE admin
    /\ UNCHANGED <<donut, station, stepper>>

\* the awaits of an operation after its own request settled
AfterPost(op, outcome) ==
    IF outcome = "throw" THEN << >>
    ELSE IF op = "seed" THEN <<"refresh", "loadStations">>
    ELSE IF op \in {"allocate", "resetAll"} THEN <<"refresh", "refreshPerf">>
    ELSE IF outcome = "ok" THEN <<"loadStations", "refresh">>
    ELSE << >>

\* mutant: no try around the request of one file, a rejection leaves the loop
AfterFileThrowLeaves(a, outcome) ==
    IF outcome = "throw" THEN << >>
    ELSE IF Len(a.outcomes) + 1 < Len(a.files) THEN <<"upload">>
    ELSE <<"refresh", "refreshPerf">>

\* the awaits of uploadSelected after the request of one file settled
AfterFile(a, outcome) ==
    IF Len(a.outcomes) + 1 < Len(a.files) THEN <<"upload">>
    ELSE <<"refresh", "refreshPerf">>

Without(running, k) ==
    SubSeq(running, 1, k - 1) \o SubSeq(running, k + 1, Len(running))

\* the pending await of an operation in flight settles and the operation
\* runs on to its next await, or through finally to its end.  refresh,
\* refreshPerf and loadStations catch what their requests throw
Settle ==
    /\ \E k \in 1..Len(admin.running), outcome \in Outcomes :
          LET a == admin.running[k]
              own == Head(a.todo) \in {"post", "upload"}
              ahead == IF Head(a.todo) = "post" THEN AfterPost(a.op, outcome)
                       ELSE IF Head(a.todo) = "upload"
                           THEN AfterFile(a, outcome)
                       ELSE Tail(a.todo)
              outcomes ==
                  IF Head(a.todo) = "upload"
                      THEN Append(a.outcomes,
                                  <<a.files[Len(a.outcomes) + 1], outcome>>)
                  ELSE IF own THEN Append(a.outcomes, <<a.op, outcome>>)
                  ELSE a.outcomes
              files == IF Head(a.todo) = "upload" /\ ahead # << >>
                          /\ Head(ahead) = "refresh"
                          THEN << >>
                          ELSE admin.selectedFiles
          IN  admin' =
                  IF ahead = << >>
                      THEN [busy |-> FALSE,
                            selectedFiles |-> files,
                            running |-> Without(admin.running, k),
                            last |-> Event(a.op, TRUE, a.files,
                                           admin.selectedFiles, outcomes)]
                      ELSE [busy |-> admin.busy,
                            selectedFiles |-> files,
                            running |->
                                [admin.running EXCEPT
                                    ![k] = [a EXCEPT !.todo = ahead,
                                                     !.outcomes = outcomes]],
                            last |-> NoEvent]
    /\ UNCHANGED <<donut, station, stepper>>

InitAdmin ==
    /\ Constructed
    /\ minGap = 16
    /\ extraRadius = 22
    /\ showValue = TRUE

NextAdmin == handleFileSelect \/ removeFile \/ Click \/ Settle

SpecAdmin == InitAdmin /\ [][NextAdmin]_vars

\* C24: at most one busy-guarded operation is in flight, and busy is true
\* exactly while one is: an operation sets it when it starts and clears it
\* when it finishes, whether its requests resolved or rejected.
C24_OneInFlightWhileBusy ==
    /\ Len(admin.running) <= 1
    /\ admin.busy <=> admin.running # << >>

\* C24 happens: removeStation has finished on a rejected request, busy is
\* false again and nothing is in flight
C24_Witness ==
    /\ admin.last.op = "removeStation"
    /\ admin.last.outcomes = << <<"removeStation", "throw">> >>
    /\ ~admin.busy
    /\ admin.running = << >>

\* the files of the requests an operation made, in the order it made them
Attempted(outcomes) == [k \in 1..Len(outcomes) |-> outcomes[k][1]]

\* C25: when uploadSelected has finished, its requests carried the selected
\* files, each once and in the order of the selection, however the request
\* of any file settled; selectedFiles is empty and busy is false.
C25_UploadAttemptsEveryFile ==
    admin.last.op = "uploadSelected"
    => /\ Attempted(admin.last.outcomes) = admin.last.files
       /\ admin.selectedFiles = << >>
       /\ ~admin.busy

\* C25 happens: an upload of three files has finished, the request of the
\* first rejected, that of the second resolved without ok
C25_Witness ==
    /\ admin.last.op = "uploadSelected"
    /\ admin.last.outcomes =
           << <<"a.csv", "throw">>, <<"b.csv", "notok">>, <<"a.csv", "ok">> >>
    /\ admin.selectedFiles = << >>

\* C26: the selected list never holds more than 5 files, and a selection
\* leaves the files selected before it in place, followed by the first of the
\* newly chosen files that fit in 5.
C26_AtMostFiveKeepsEarlier ==
    /\ Len(admin.selectedFiles) <= 5
    /\ admin.last.op = "handleFileSelect" /\ admin.last.given
       => \E fit \in {5 - Len(admin.last.before)} :
              /\ fit >= 0
              /\ admin.selectedFiles =
                     admin.last.before
                     \o SubSeq(admin.last.files, 1,
                               IF Len(admin.last.files) > fit
                                   THEN fit ELSE Len(admin.last.files))

\* C26 happens: three files were chosen with four selected; the first of the
\* three was added, the four stayed in place
C26_Witness ==
    /\ admin.last.op = "handleFileSelect"
    /\ admin.last.before = <<"a.csv", "a.csv", "a.csv", "b.csv">>
    /\ admin.last.files = <<"b.csv", "a.csv", "b.csv">>
    /\ admin.selectedFiles = <<"a.csv", "a.csv", "a.csv", "b.csv", "b.csv">>


(***************************************************************************)
(* StationPanel's polling effect.  station.intervals are the intervals set *)
(* and not cleared, each with the function it calls, its period, the code  *)
(* of the render whose function it holds and the second it is due at;      *)
(* station.held are the ids t1, t2, t3 the last run of the effect keeps    *)
(* for its cleanup; station.made counts the ids given out; station.now is  *)
(* the time in seconds.                                                    *)
(***************************************************************************)
\* runs of the effect
MaxEffects == 3
\* seconds the clock runs
MaxSeconds == 6

Codes == {"ST-1", "ST-2", "ST-3"}

\* setInterval(fn, ms), called at second now by the render of code
setInterval(id, fn, ms, code, now) ==
    [id |-> id, fn |-> fn, ms |-> ms, code |-> code,
     due |-> now + ms \div 1000]

\* mutant: the cleanup without clearInterval(t3)
CleanupKeepsThird(intervals, held) ==
    {t \in intervals : t.id # held[1] /\ t.id # held[2]}

\* the function the effect returns
Cleanup(intervals, held) ==
    {t \in intervals : t.id # held[1] /\ t.id # held[2] /\ t.id # held[3]}

\* the body of the effect, run by the render of code
Effect(intervals, code, made, now) ==
    LET t1 == made + 1
        t2 == made + 2
        t3 == made + 3
    IN  [intervals |->
             intervals \cup {setInterval(t1, "loadTask", 2000, code, now),
                             setInterval(t2, "loadOverview", 4000, code, now),
                             setInterval(t3, "loadPerf", 5000, code, now)},
         held |-> <<t1, t2, t3>>,
         made |-> made + 3]

\* what history keeps of an event: between are the intervals left active
\* after the cleanup of the event and before its effect body
Polled(op, fn, code, between) ==
    [op |-> op, fn |-> fn, code |-> code, between |-> between]

\* the panel mounts with the code of useState and its effect runs
MountStation ==
    /\ ~station.mounted
    /\ station.made < 3 * MaxEffects
    /\ \E e \in {Effect(station.intervals, "ST-1", station.made,
                        station.now)} :
          station' = [mounted |-> TRUE, code |-> "ST-1",
                      intervals |-> e.intervals, held |-> e.held,
                      made |-> e.made, now |-> station.now,
                      last |-> Polled("mount", "", "ST-1",
                                      station.intervals)]
    /\ UNCHANGED <<donut, admin, stepper>>

\* the select changes: setCode, a render, the cleanup of the previous
\* effect, then the effect of the new render
setCode ==
    /\ station.mounted
    /\ station.made < 3 * MaxEffects
    /\ \E code \in Codes \ {station.code} :
          \E between \in {Cleanup(station.intervals, station.held)} :
              \E e \in {Effect(between, code, station.made, station.now)} :
                  station' = [station EXCEPT
                                 !.code = code,
                                 !.intervals = e.intervals,
                                 !.held = e.held,
                                 !.made = e.made,
                                 !.last = Polled("setCode", "", code,
                                                 between)]
    /\ UNCHANGED <<donut, admin, stepper>>

\* the panel unmounts: the cleanup of the last effect
UnmountStation ==
    /\ station.mounted
    /\ station' = [station EXCEPT
                      !.mounted = FALSE,
                      !.intervals = Cleanup(@, station.held),
                      !.held = << >>,
                      !.last = Polled("unmount", "", station.code,
                                      Cleanup(station.intervals,
                                              station.held))]
    /\ UNCHANGED <<donut, admin, stepper>>

\* an interval that is due calls its function
Tick ==
    /\ \E t \in station.intervals :
          /\ t.due = station.now
          /\ station' = [station EXCEPT
                            !.intervals =
                                (@ \ {t})
                                \cup {[t EXCEPT !.due = @ + t.ms \div 1000]},
                            !.last = Polled("tick", t.fn, t.code, {})]
    /\ UNCHANGED <<donut, admin, stepper>>

\* a second passes once every interval due has fired
Elapse ==
    /\ station.now < MaxSeconds
    /\ \A t \in station.intervals : t.due > station.now
    /\ station' = [station EXCEPT !.now = @ + 1]
    /\ UNCHANGED <<donut, admin, stepper>>

InitStation ==
    /\ Constructed
    /\ minGap = 16
    /\ extraRadius = 22
    /\ showValue = TRUE

NextStation == MountStation \/ setCode \/ UnmountStation \/ Tick \/ Elapse

SpecStation == InitStation /\ [][NextStation]_vars

\* the three intervals of the effect run by the render of code
OneSet(code) ==
    {<<"loadTask", 2000, code>>, <<"loadOverview", 4000, code>>,
     <<"loadPerf", 5000, code>>}

\* C27: while the panel is mounted exactly three intervals are active, task
\* every 2 s, overview every 4 s and performance every 5 s, all of the render
\* of the selected code, and every poll is made for that code; a change of
\* station leaves no interval of the previous set when the new set starts;
\* no interval remains after unmount.
C27_OneSetOfIntervals ==
    /\ station.mounted
       => /\ Cardinality(station.intervals) = 3
          /\ {<<t.fn, t.ms, t.code>> : t \in station.intervals}
                 = OneSet(station.code)
          /\ \A t \in station.intervals :
                 /\ t.due > station.now - 1
                 /\ t.due <= station.now + t.ms \div 1000
    /\ ~station.mounted => station.intervals = {}
    /\ station.last.op = "tick"
       => station.mounted /\ station.last.code = station.code
    /\ station.last.op \in {"mount", "setCode", "unmount"}
       => station.last.between = {}

\* C27 happens: the station was changed at second 2 or later and the task
\* interval of the new set has polled the new code
C27_Witness ==
    /\ station.mounted
    /\ station.made = 6
    /\ station.code = "ST-3"
    /\ station.last.op = "tick"
    /\ station.last.fn = "loadTask"
    /\ station.last.code = "ST-3"
    /\ \E t \in station.intervals : t.fn = "loadTask" /\ t.due >= 6


(***************************************************************************)
(* Stepper.  Numbers are integers, NaN, Infinity and NegInfinity.  The     *)
(* text of the input is a sequence of keys; the key "Infinity" is the word *)
(* as a paste delivers it.  The parent stores what onChange receives and   *)
(* passes it back as value.                                                *)
(***************************************************************************)
\* keys of one typed text
MaxTyped == 2
\* the plus button is not pressed beyond this value
MaxValue == 12

IsFinite(n) == ~IsNaN(n) /\ n # Infinity /\ n # NegInfinity

\* a + b of numbers
Plus(a, b) ==
    IF IsNaN(a) \/ IsNaN(b) THEN NaN
    ELSE IF ~IsFinite(a) THEN (IF ~IsFinite(b) /\ b # a THEN NaN ELSE a)
    ELSE IF ~IsFinite(b) THEN b
    ELSE a + b

MathMin(a, b) == IF IsNaN(a) \/ IsNaN(b) THEN NaN ELSE IF a < b THEN a ELSE b

MathMax(a, b) == IF IsNaN(a) \/ IsNaN(b) THEN NaN ELSE IF a > b THEN a ELSE b

Keys == {"1", "9", "-", " ", "x", "Infinity"}

Texts == UNION {[1..m -> Keys] : m \in 0..MaxTyped}

Digit == [k \in {"1", "9"} |-> IF k = "1" THEN 1 ELSE 9]

RECURSIVE Decimal(_)
\* the value of a sequence of digits
Decimal(digits) ==
    IF digits = << >> THEN 0
    ELSE 10 * Decimal(SubSeq(digits, 1, Len(digits) - 1))
         + Digit[digits[Len(digits)]]

\* text without its leading and trailing white space
Trim(text) ==
    LET inked == {k \in 1..Len(text) : text[k] # " "}
    IN  IF inked = {} THEN << >>
        ELSE SubSeq(text, CHOOSE a \in inked : \A b \in inked : a <= b,
                    CHOOSE a \in inked : \A b \in inked : a >= b)

\* an unsigned numeric literal
Unsigned(t) ==
    IF t = <<"Infinity">> THEN Infinity
    ELSE IF t # << >> /\ \A k \in 1..Len(t) : t[k] \in DOMAIN Digit
        THEN Decimal(t)
    ELSE NaN

\* Number(e.target.value)
Number(text) ==
    LET t == Trim(text)
    IN  IF t = << >> THEN 0
        ELSE IF t[1] = "-"
            THEN (IF IsNaN(Unsigned(Tail(t))) THEN NaN
                  ELSE 0 - Unsigned(Tail(t)))
        ELSE Unsigned(t)

\* mutant: the clamp without its lower limit
clampUpperOnly(n, min, max) == MathMin(max, n)

\* clamp of the Stepper
clamp(n, min, max) == MathMax(min, MathMin(max, n))

\* what history keeps of an event of the Stepper
Sent(op, text, sent) == [op |-> op, text |-> text, sent |-> sent]

\* the minus button, enabled while value > min
dec ==
    /\ ~(stepper.value <= stepper.min)
    /\ \E v \in {clamp(Plus(stepper.value, 0 - stepper.step), stepper.min,
                       stepper.max)} :
          stepper' = [stepper EXCEPT !.value = v,
                                     !.last = Sent("dec", << >>, v)]
    /\ UNCHANGED <<donut, admin, station>>

\* the plus button, enabled while value < max
inc ==
    /\ ~(stepper.value >= stepper.max)
    /\ stepper.value < MaxValue
    /\ \E v \in {clamp(Plus(stepper.value, stepper.step), stepper.min,
                       stepper.max)} :
          stepper' = [stepper EXCEPT !.value = v,
                                     !.last = Sent("inc", << >>, v)]
    /\ UNCHANGED <<donut, admin, station>>

\* the text of the input changed
onInput ==
    /\ \E text \in Texts :
          \E n \in {Number(text)} :
              \E v \in {IF IsFinite(n)
                            THEN clamp(n, stepper.min, stepper.max)
                            ELSE stepper.min} :
                  stepper' = [stepper EXCEPT !.value = v,
                                             !.last = Sent("onInput", text, v)]
    /\ UNCHANGED <<donut, admin, station>>

\* the Steppers of AdminPanel (value 6 and 0, min 0, step 1, no max) and
\* Steppers with other limits and steps
InitStepper ==
    /\ usedLeft = [i \in Inst |-> << >>]
    /\ usedRight = [i \in Inst |-> << >>]
    /\ calls = [i \in Inst |-> << >>]
    /\ outs = [i \in Inst |-> << >>]
    /\ panel = NoPanel
    /\ minGap = 16
    /\ extraRadius = 22
    /\ showValue = TRUE
    /\ admin = AdminMounted
    /\ station = Unmounted
    /\ \E value \in {0, 6}, min \in {0, 2}, max \in {9, Infinity},
          step \in {1, 5} :
          stepper = [value |-> value, min |-> min, max |-> max,
                     step |-> step, last |-> NoEvent]

NextStepper == dec \/ inc \/ onInput

SpecStepper == InitStepper /\ [][NextStepper]_vars

\* the text is a number as the claim means it: digits, with a sign or not,
\* and white space around them
Numeral(text) ==
    \E a, b \in 1..Len(text) :
        /\ a <= b
        /\ \A k \in 1..Len(text) : (k < a \/ k > b) => text[k] = " "
        /\ text[a] \in DOMAIN Digit \/ (text[a] = "-" /\ a < b)
        /\ \A k \in (a + 1)..b : text[k] \in DOMAIN Digit

\* C28: every value passed to onChange lies in [min, max], and a typed text
\* that is not a finite number passes min.
C28_SentWithinLimits ==
    stepper.last.op # "none"
    => /\ ~IsNaN(stepper.last.sent)
       /\ stepper.min <= stepper.last.sent
       /\ stepper.last.sent <= stepper.max
       /\ (/\ stepper.last.op = "onInput"
           /\ ~Numeral(stepper.last.text)
           /\ \E k \in 1..Len(stepper.last.text) : stepper.last.text[k] # " ")
          => stepper.last.sent = stepper.min

\* C28 happens: "-9" was typed into a Stepper of min 2 and 2 was passed
C28_Witness ==
    /\ stepper.last.op = "onInput"
    /\ stepper.last.text = <<"-", "9">>
    /\ stepper.min = 2
    /\ stepper.last.sent = 2

====
